---- MODULE Spec2Model ----
(***************************************************************************)
(* Action execution and sandbox synchronisation of beeweed/agent--code.    *)
(*                                                                         *)
(*   ActionRunner  src/app/lib/.server/llm/openrouter.ts  (lines 120-314)  *)
(*   e2bStore      src/app/lib/stores/files.ts            (lines 162-475)  *)
(*   FilesStore    src/unnamed/part_000                   (lines 67-248)   *)
(*                                                                         *)
(* JavaScript runs the handlers on one event loop.  A handler (a call made *)
(* by the producer, by the application or by a sandbox callback settling)  *)
(* runs to its first await; every continuation is a job of the microtask   *)
(* queue mq, taken in FIFO order, and the queue is emptied before the next *)
(* event is handled.                                                       *)
(***************************************************************************)
EXTENDS Naturals, Integers, Sequences, FiniteSets, TLC

\* Bounds of the model.
MaxOps == 3
MaxActions == 2

VARIABLES
    \* e2bStore (SandboxLink)
    isConnected, isConnecting,
    fileWriteCallback, makeDirectoryCallback, runCommandCallback,
    pendingOperations, isProcessingQueue,
    ops, invokeLog,
    \* ActionRunner, one per turn
    actions, tail, resolved, waiting, co, submitLog, execLog,
    \* FilesStore
    files, size, modifiedFiles, chatId, storage, addFileLog,
    \* event loop
    mq, draining,
    \* WorkbenchStore.syncMissingFiles
    sync

linkVars == <<isConnected, isConnecting, fileWriteCallback, makeDirectoryCallback,
              runCommandCallback, pendingOperations, isProcessingQueue, ops, invokeLog>>
runnerVars == <<actions, tail, resolved, waiting, co, submitLog, execLog>>
fsVars == <<files, size, modifiedFiles, chatId, storage, addFileLog>>
loopVars == <<mq, draining>>
syncVars == <<sync>>
vars == <<linkVars, runnerVars, fsVars, loopVars, syncVars>>

Turns == {"t1", "t2"}
ActionIds == 1..MaxActions
Kinds == {"writeFile", "makeDirectory", "runCommand"}
Outcomes == {"true", "false", "throw"}

----------------------------------------------------------------------------
(* Strings are sequences of tokens: "/" and path segments.                  *)

SLASH == "/"

RECURSIVE StartsWith(_, _)
StartsWith(s, p) ==
    IF p = <<>> THEN TRUE
    ELSE IF s = <<>> THEN FALSE
    ELSE Head(s) = Head(p) /\ StartsWith(Tail(s), Tail(p))

\* s.split('/').filter(Boolean)
SplitParts(s) == SelectSeq(s, LAMBDA x : x # SLASH)

\* s.replace(/^\//, '')
StripLeadingSlash(s) == IF s # <<>> /\ Head(s) = SLASH THEN Tail(s) ELSE s

\* '/' + parts[1] + '/' + parts[2] ... + '/' + parts[n]
RECURSIVE JoinAbs(_)
JoinAbs(parts) ==
    IF parts = <<>> THEN <<>>
    ELSE <<SLASH, Head(parts)>> \o JoinAbs(Tail(parts))

HOME_USER == <<SLASH, "home", SLASH, "user">>
HOME_USER_SLASH == HOME_USER \o <<SLASH>>

\* #runFileAction: the sandbox path of a file action
SandboxPath(filePath) ==
    IF StartsWith(filePath, HOME_USER_SLASH) THEN filePath
    ELSE HOME_USER_SLASH \o StripLeadingSlash(filePath)

\* the directories as they would be handed over by a loop from the innermost
\* directory outwards
SandboxDirsInnermostFirst(filePath) ==
    LET parts == SplitParts(SandboxPath(filePath))
        cur(i) == JoinAbs(SubSeq(parts, 1, i))
        idx == SelectSeq([i \in 1..(Len(parts) - 1) |-> Len(parts) - i],
                         LAMBDA i : StartsWith(cur(i), HOME_USER))
    IN [j \in 1..Len(idx) |-> cur(idx[j])]

\* #runFileAction: the directories handed to makeDirectory, in loop order
SandboxDirs(filePath) ==
    LET parts == SplitParts(SandboxPath(filePath))
        cur(i) == JoinAbs(SubSeq(parts, 1, i))
        idx == SelectSeq([i \in 1..(Len(parts) - 1) |-> i],
                         LAMBDA i : StartsWith(cur(i), HOME_USER))
    IN [j \in 1..Len(idx) |-> cur(idx[j])]

----------------------------------------------------------------------------
(* Microtask jobs.                                                          *)

NoTurn == "none"
Job(type, t, a, o, out, k) ==
    [type |-> type, t |-> t, a |-> a, op |-> o, outcome |-> out, k |-> k]
ResumeJob(owner, o) ==
    Job(IF owner.t \in Turns THEN "resume" ELSE "syncResume", owner.t, owner.a, o, "", 0)
ReactionJob(kind, t, a, k) == Job(kind, t, a, 0, "", k)

ClientOwner == [t |-> "client", a |-> 0]
SyncOwner == [t |-> "sync", a |-> 0]
\* an owner whose continuation after the await is part of the model
IsRunnerOwner(owner) == owner.t \in Turns \/ owner = SyncOwner

\* the continuations of the callers awaiting the promises of the operations os
RECURSIVE ResumeJobs(_, _)
ResumeJobs(opsNow, os) ==
    IF os = <<>> THEN <<>>
    ELSE (IF IsRunnerOwner(opsNow[Head(os)].owner)
          THEN <<ResumeJob(opsNow[Head(os)].owner, Head(os))>> ELSE <<>>)
         \o ResumeJobs(opsNow, Tail(os))

\* An event of the outside world (a call of the application, a settling sandbox
\* callback) is handled when no microtask is left; the calls of one producer or
\* client run follow one another before the microtasks they queue.
Idle == mq = <<>>
CanCall == ~draining



----------------------------------------------------------------------------
(* e2bStore: the sandbox link (files.ts 162-475).                           *)
(* A callback variable is TRUE when a callback is installed, FALSE for null.*)
(* ops[o] is the o-th operation issued to the link, with the state of the   *)
(* promise its caller holds; invokeLog lists the operations in the order in *)
(* which a sandbox callback was invoked for them.                           *)

Callbacks == [writeFile |-> fileWriteCallback,
              makeDirectory |-> makeDirectoryCallback,
              runCommand |-> runCommandCallback]

\* the three operations as they would be if a call without callback were
\* queued whatever the connection state
IssueModeAlwaysQueues(kind) ==
    IF Callbacks[kind] THEN "direct" ELSE "queued"

\* writeFile / makeDirectory / runCommand: which of the three branches is taken
IssueMode(kind) ==
    IF Callbacks[kind] THEN "direct"
    ELSE IF isConnecting \/ isConnected THEN "queued"
    ELSE "failfast"

NewOp(kind, arg, owner) ==
    LET mode == IssueMode(kind) IN
    [kind |-> kind, arg |-> arg, owner |-> owner, mode |-> mode,
     state |-> CASE mode = "direct" -> "invoked"
                 [] mode = "queued" -> "queued"
                 [] OTHER -> "resolved",
     invoked |-> (mode = "direct")]

\* the call of one of the three operations by owner: the new operation is
\* invoked directly, pushed on pendingOperations, or fails fast
IssueOp(kind, arg, owner) ==
    LET o == Len(ops) + 1
        mode == IssueMode(kind) IN
    /\ ops' = Append(ops, NewOp(kind, arg, owner))
    /\ invokeLog' = IF mode = "direct" THEN Append(invokeLog, o) ELSE invokeLog
    /\ pendingOperations' = IF mode = "queued" THEN Append(pendingOperations, o)
                            ELSE pendingOperations

\* the caller of a failed-fast operation awaits an already settled promise
IssueJobs(kind, owner) ==
    IF IssueMode(kind) = "failfast" /\ IsRunnerOwner(owner)
    THEN <<ResumeJob(owner, Len(ops) + 1)>> ELSE <<>>

writeFile(arg, owner) == IssueOp("writeFile", arg, owner)
makeDirectory(arg, owner) == IssueOp("makeDirectory", arg, owner)
runCommand(arg, owner) == IssueOp("runCommand", arg, owner)

\* isReady()
isReady == (isConnected /\ fileWriteCallback) \/ isConnecting

\* processQueue as it would be if it took the newest operation (pop) first
RECURSIVE DrainLoopLifo(_, _, _, _, _)
DrainLoopLifo(q, os, log, jobs, cbs) ==
    IF q = <<>>
    THEN [q |-> q, ops |-> os, log |-> log, jobs |-> jobs, processing |-> FALSE]
    ELSE LET o == q[Len(q)]
             rest == SubSeq(q, 1, Len(q) - 1) IN
         IF cbs[os[o].kind]
         THEN [q |-> rest,
               ops |-> [os EXCEPT ![o].state = "invoked", ![o].invoked = TRUE],
               log |-> Append(log, o), jobs |-> jobs, processing |-> TRUE]
         ELSE DrainLoopLifo(rest, [os EXCEPT ![o].state = "resolved"],
                            log, jobs \o ResumeJobs(os, <<o>>), cbs)

\* processQueue, the while loop from its top with queue q: an operation whose
\* callback is installed is invoked and the loop is suspended on it; one whose
\* callback is null is resolved with false and the loop goes on; the loop ends,
\* clearing isProcessingQueue, when the queue is empty.
RECURSIVE DrainLoop(_, _, _, _, _)
DrainLoop(q, os, log, jobs, cbs) ==
    IF q = <<>>
    THEN [q |-> q, ops |-> os, log |-> log, jobs |-> jobs, processing |-> FALSE]
    ELSE LET o == Head(q) IN
         IF cbs[os[o].kind]
         THEN [q |-> Tail(q),
               ops |-> [os EXCEPT ![o].state = "invoked", ![o].invoked = TRUE],
               log |-> Append(log, o), jobs |-> jobs, processing |-> TRUE]
         ELSE DrainLoop(Tail(q),
                        [os EXCEPT ![o].state = "resolved"],
                        log, jobs \o ResumeJobs(os, <<o>>), cbs)

\* processQueue as it would be without the isProcessingQueue guard
processQueueUnguarded(cbs) ==
    IF pendingOperations = <<>> \/ ~cbs.writeFile \/ ~cbs.makeDirectory
    THEN [q |-> pendingOperations, ops |-> ops, log |-> invokeLog, jobs |-> <<>>,
          processing |-> isProcessingQueue]
    ELSE DrainLoop(pendingOperations, ops, invokeLog, <<>>, cbs)

\* processQueue() as called by registerSandboxCallbacks, callbacks cbs installed
processQueue(cbs) ==
    IF isProcessingQueue \/ pendingOperations = <<>>
       \/ ~cbs.writeFile \/ ~cbs.makeDirectory
    THEN [q |-> pendingOperations, ops |-> ops, log |-> invokeLog, jobs |-> <<>>,
          processing |-> isProcessingQueue]
    ELSE DrainLoop(pendingOperations, ops, invokeLog, <<>>, cbs)

setConnected(connected) ==
    /\ Idle
    /\ isConnected' = connected
    /\ isConnecting' = FALSE
    /\ UNCHANGED <<fileWriteCallback, makeDirectoryCallback, runCommandCallback,
                   pendingOperations, isProcessingQueue, ops, invokeLog>>
    /\ UNCHANGED <<runnerVars, fsVars, syncVars, mq, draining>>

setConnecting(connecting) ==
    /\ Idle
    /\ isConnecting' = connecting
    /\ UNCHANGED <<isConnected, fileWriteCallback, makeDirectoryCallback,
                   runCommandCallback, pendingOperations, isProcessingQueue, ops,
                   invokeLog>>
    /\ UNCHANGED <<runnerVars, fsVars, syncVars, mq, draining>>

\* registerSandboxCallbacks as it would be if it installed only the two file
\* callbacks
registerWithoutRunCommand ==
    LET cbs == [writeFile |-> TRUE, makeDirectory |-> TRUE, runCommand |-> FALSE]
        d == processQueue(cbs) IN
    /\ Idle
    /\ fileWriteCallback' = cbs.writeFile
    /\ makeDirectoryCallback' = cbs.makeDirectory
    /\ runCommandCallback' = cbs.runCommand
    /\ pendingOperations' = d.q
    /\ ops' = d.ops
    /\ invokeLog' = d.log
    /\ isProcessingQueue' = d.processing
    /\ mq' = mq \o d.jobs
    /\ draining' = (mq' # <<>>)
    /\ UNCHANGED <<isConnected, isConnecting>>
    /\ UNCHANGED <<runnerVars, fsVars, syncVars>>

\* registerSandboxCallbacks(callbacks): the callbacks are assigned and the
\* queue is processed
registerSandboxCallbacks ==
    LET cbs == [writeFile |-> TRUE, makeDirectory |-> TRUE, runCommand |-> TRUE]
        d == processQueue(cbs) IN
    /\ Idle
    /\ fileWriteCallback' = cbs.writeFile
    /\ makeDirectoryCallback' = cbs.makeDirectory
    /\ runCommandCallback' = cbs.runCommand
    /\ pendingOperations' = d.q
    /\ ops' = d.ops
    /\ invokeLog' = d.log
    /\ isProcessingQueue' = d.processing
    /\ mq' = mq \o d.jobs
    /\ draining' = (mq' # <<>>)
    /\ UNCHANGED <<isConnected, isConnecting>>
    /\ UNCHANGED <<runnerVars, fsVars, syncVars>>

\* reset as it would be if it rejected the queued operations without taking
\* them off the queue
resetKeepsQueue ==
    /\ Idle
    /\ isConnected' = FALSE
    /\ isConnecting' = FALSE
    /\ fileWriteCallback' = FALSE
    /\ makeDirectoryCallback' = FALSE
    /\ runCommandCallback' = FALSE
    /\ ops' = [o \in DOMAIN ops |->
                 IF \E i \in DOMAIN pendingOperations : pendingOperations[i] = o
                 THEN [ops[o] EXCEPT !.state = "rejected"]
                 ELSE ops[o]]
    /\ mq' = mq \o ResumeJobs(ops, pendingOperations)
    /\ draining' = (mq' # <<>>)
    /\ UNCHANGED <<pendingOperations, isProcessingQueue, invokeLog>>
    /\ UNCHANGED <<runnerVars, fsVars, syncVars>>

\* reset(): initialState, all callbacks null, every queued operation rejected
reset ==
    /\ Idle
    /\ isConnected' = FALSE
    /\ isConnecting' = FALSE
    /\ fileWriteCallback' = FALSE
    /\ makeDirectoryCallback' = FALSE
    /\ runCommandCallback' = FALSE
    /\ ops' = [o \in DOMAIN ops |->
                 IF \E i \in DOMAIN pendingOperations : pendingOperations[i] = o
                 THEN [ops[o] EXCEPT !.state = "rejected"]
                 ELSE ops[o]]
    /\ pendingOperations' = <<>>
    /\ mq' = mq \o ResumeJobs(ops, pendingOperations)
    /\ draining' = (mq' # <<>>)
    /\ UNCHANGED <<isProcessingQueue, invokeLog>>
    /\ UNCHANGED <<runnerVars, fsVars, syncVars>>

\* A caller other than an ActionRunner (another turn's runner, the reconciler)
\* calls one of the three operations.
ClientArg(kind) == IF kind = "runCommand" THEN <<"ls">> ELSE HOME_USER

ClientCall(kind) ==
    /\ CanCall
    /\ Len(ops) < MaxOps
    /\ IssueOp(kind, ClientArg(kind), ClientOwner)
    /\ UNCHANGED <<isConnected, isConnecting, fileWriteCallback, makeDirectoryCallback,
                   runCommandCallback, isProcessingQueue>>
    /\ UNCHANGED <<runnerVars, fsVars, syncVars, mq, draining>>

\* the promise the caller of operation o holds, after its callback settled
SettledOp(op, outcome) ==
    IF outcome = "throw" THEN [op EXCEPT !.state = "rejected"]
    ELSE [op EXCEPT !.state = "resolved"]

\* The sandbox settles the promise of the callback invoked for operation o: it
\* returns true or false, or it rejects.  `await callback(...)` goes on: in
\* writeFile/makeDirectory/runCommand for a direct call, which returns to its
\* caller; in processQueue for a queued operation, which resolves or rejects
\* the operation's promise and takes the next operation off the queue.
CallbackSettles(o, outcome) ==
    /\ Idle
    /\ o \in DOMAIN ops
    /\ ops[o].state = "invoked"
    /\ LET os == [ops EXCEPT ![o] = SettledOp(ops[o], outcome)]
           d == IF ops[o].mode = "queued"
                THEN DrainLoop(pendingOperations, os, invokeLog, <<>>, Callbacks)
                ELSE [q |-> pendingOperations, ops |-> os, log |-> invokeLog,
                      jobs |-> <<>>, processing |-> isProcessingQueue]
       IN /\ ops' = d.ops
          /\ pendingOperations' = d.q
          /\ invokeLog' = d.log
          /\ isProcessingQueue' = d.processing
          /\ mq' = ResumeJobs(ops, <<o>>) \o d.jobs
    /\ draining' = (mq' # <<>>)
    /\ UNCHANGED <<isConnected, isConnecting, fileWriteCallback, makeDirectoryCallback,
                   runCommandCallback>>
    /\ UNCHANGED <<runnerVars, fsVars, syncVars>>

----------------------------------------------------------------------------
(* FilesStore (part_000 91-248).  files maps a path to its Dirent; a path   *)
(* outside DOMAIN files has no entry.  addFileLog records the calls of      *)
(* addFile.                                                                 *)

WORK_DIR == <<SLASH, "project">>
DOT == <<".">>
NoChat == "undefined"

FileEntry(content) == [type |-> "file", content |-> content, isBinary |-> FALSE]
FolderEntry == [type |-> "folder"]

\* nodePath.dirname (posix): the index of the last "/" that has a segment
\* after it, looking from the end down to the second position; 0 if none
RECURSIVE DirnameEnd(_, _, _)
DirnameEnd(p, i, matchedSlash) ==
    IF i < 2 THEN 0
    ELSE IF p[i] = SLASH
         THEN (IF ~matchedSlash THEN i ELSE DirnameEnd(p, i - 1, matchedSlash))
         ELSE DirnameEnd(p, i - 1, FALSE)

dirname(p) ==
    IF p = <<>> THEN DOT
    ELSE LET hasRoot == Head(p) = SLASH
             end == DirnameEnd(p, Len(p), TRUE)
         IN IF end = 0 THEN (IF hasRoot THEN <<SLASH>> ELSE DOT)
            ELSE IF hasRoot /\ end = 2 THEN <<SLASH, SLASH>>
            ELSE SubSeq(p, 1, end - 1)

\* addFile: the key the file is stored under
NormalizedPath(filePath) ==
    IF StartsWith(filePath, WORK_DIR) THEN filePath
    ELSE WORK_DIR \o <<SLASH>> \o filePath

\* #ensureFolderExists: a folder entry for every prefix that has no entry
ensureFolderExists(fs, folderPath) ==
    LET parts == SplitParts(folderPath)
        prefixes == {JoinAbs(SubSeq(parts, 1, i)) : i \in 1..Len(parts)}
    IN [p \in DOMAIN fs \cup prefixes |->
           IF p \in DOMAIN fs THEN fs[p] ELSE FolderEntry]

\* getFile(filePath) is defined
HasFile(fs, filePath) == filePath \in DOMAIN fs /\ fs[filePath].type = "file"

\* #persistToStorage as it would be with one storage key for all chats
persistToStorageShared(fs) ==
    IF chatId # NoChat THEN [c \in DOMAIN storage |-> fs] ELSE storage

\* #persistToStorage
persistToStorage(fs) ==
    IF chatId # NoChat THEN [storage EXCEPT ![chatId] = fs] ELSE storage

\* addFile as it would be if it counted every call
AddFileResultCountsAll(filePath, content) ==
    LET normalizedPath == NormalizedPath(filePath)
        folder == dirname(normalizedPath)
        withFolders == IF folder # DOT /\ folder # WORK_DIR
                       THEN ensureFolderExists(files, folder) ELSE files
        newFiles == [p \in DOMAIN withFolders \cup {normalizedPath} |->
                        IF p = normalizedPath THEN FileEntry(content)
                        ELSE withFolders[p]]
    IN [files |-> newFiles,
        size |-> size + 1,
        storage |-> persistToStorage(newFiles)]

\* addFile(filePath, content) on the file map fs with counter sz
AddFileTo(fs, sz, filePath, content) ==
    LET normalizedPath == NormalizedPath(filePath)
        folder == dirname(normalizedPath)
        withFolders == IF folder # DOT /\ folder # WORK_DIR
                       THEN ensureFolderExists(fs, folder) ELSE fs
        newFiles == [p \in DOMAIN withFolders \cup {normalizedPath} |->
                        IF p = normalizedPath THEN FileEntry(content)
                        ELSE withFolders[p]]
    IN [files |-> newFiles,
        size |-> IF HasFile(withFolders, normalizedPath) THEN sz ELSE sz + 1]

\* addFile(filePath, content): the store after the call
AddFileResult(filePath, content) ==
    LET r == AddFileTo(files, size, filePath, content)
    IN [files |-> r.files, size |-> r.size, storage |-> persistToStorage(r.files)]

addFile(filePath, content) ==
    LET r == AddFileResult(filePath, content) IN
    /\ files' = r.files
    /\ size' = r.size
    /\ storage' = r.storage
    /\ UNCHANGED <<modifiedFiles, chatId>>

\* the number of File entries of a file map
FileCount(fs) == Cardinality({p \in DOMAIN fs : fs[p].type = "file"})

\* #clearFiles
clearFiles ==
    /\ files' = <<>>
    /\ size' = 0
    /\ modifiedFiles' = <<>>

\* #loadFromStorage(chatId), on the cleared store: every stored entry is set
\* and the File entries are counted
loadFromStorage(chat) ==
    LET parsed == storage[chat] IN
    /\ files' = parsed
    /\ size' = FileCount(parsed)
    /\ modifiedFiles' = <<>>

\* setChatId as it would be without the test for the active id
setChatIdReloads(chat) ==
    /\ chatId' = chat
    /\ IF chat # NoChat THEN loadFromStorage(chat) ELSE clearFiles
    /\ UNCHANGED <<storage, addFileLog>>

setChatId(chat) ==
    /\ IF chatId = chat THEN UNCHANGED <<files, size, modifiedFiles, chatId>>
       ELSE /\ chatId' = chat
            /\ IF chat # NoChat THEN loadFromStorage(chat) ELSE clearFiles
    /\ UNCHANGED <<storage, addFileLog>>

resetFiles ==
    /\ clearFiles
    /\ chatId' = NoChat
    /\ UNCHANGED <<storage, addFileLog>>

resetFileModifications ==
    /\ modifiedFiles' = <<>>
    /\ UNCHANGED <<files, size, chatId, storage, addFileLog>>

\* saveFile as it would be if every write replaced the recorded content
saveFileLastTouch(filePath, content) ==
    LET newFiles == [p \in DOMAIN files \cup {filePath} |->
                        IF p = filePath THEN FileEntry(content) ELSE files[p]]
    IN /\ modifiedFiles' =
             IF HasFile(files, filePath)
             THEN [p \in DOMAIN modifiedFiles \cup {filePath} |->
                      IF p = filePath THEN files[filePath].content
                      ELSE modifiedFiles[p]]
             ELSE modifiedFiles
       /\ files' = newFiles
       /\ storage' = persistToStorage(newFiles)
       /\ UNCHANGED <<size, chatId, addFileLog>>

\* saveFile(filePath, content)
saveFile(filePath, content) ==
    LET newFiles == [p \in DOMAIN files \cup {filePath} |->
                        IF p = filePath THEN FileEntry(content) ELSE files[p]]
    IN /\ modifiedFiles' =
             IF filePath \notin DOMAIN modifiedFiles /\ HasFile(files, filePath)
             THEN [p \in DOMAIN modifiedFiles \cup {filePath} |->
                      IF p = filePath THEN files[filePath].content
                      ELSE modifiedFiles[p]]
             ELSE modifiedFiles
       /\ files' = newFiles
       /\ storage' = persistToStorage(newFiles)
       /\ UNCHANGED <<size, chatId, addFileLog>>


----------------------------------------------------------------------------
(* ActionRunner (openrouter.ts 155-314), one per turn t.                    *)
(*                                                                          *)
(* #currentExecutionPromise is the promise number tail[t] of the turn:      *)
(* promise 0 is Promise.resolve(); runAction number k makes promise k,      *)
(* which resolves when the execution it chained has ended and its catch     *)
(* has run.  resolved[t] is the set of resolved promises; waiting[t] lists, *)
(* in the order of their registration, the then-reactions registered on     *)
(* promises that are not resolved yet.  co[t][a] is the position of         *)
(* #executeAction(a): idle, suspended on a sandbox call (mkdir, write,      *)
(* cmd), ending (its body is over), done or threw.                          *)
(* submitLog and execLog record the order of the first runAction calls and  *)
(* the order in which #executeAction is entered.                            *)

FilePaths == {<<"a.txt">>}
Contents == {"c1", "c2"}
Commands == {<<"ls">>}
PartialContent == "c1"
\* data.action as the producer hands it to addAction and to runAction: the
\* content of a file action is final only at runAction
ActionData ==
    [type : {"file"}, filePath : FilePaths, content : Contents]
    \cup [type : {"shell"}, filePath : {<<>>}, content : Commands]
\* what the parser passes when an action opens: a file's content is still partial
Open(data) == {d \in data : d.type = "file" => d.content = PartialContent}
OpenData == Open(ActionData)

NoAction == [present |-> FALSE, type |-> "", filePath |-> <<>>, content |-> "",
             status |-> "", executed |-> FALSE, aborted |-> FALSE, error |-> ""]
Snapshot(action) ==
    [type |-> action.type, filePath |-> action.filePath, content |-> action.content]
IdleCo == [pc |-> "idle", i |-> 0, op |-> 0, snap |-> Snapshot(NoAction), k |-> 0]

Owner(t, a) == [t |-> t, a |-> a]

\* promise.then(reaction): the reaction is a microtask at once when the
\* promise is resolved already, else it waits for the promise
ThenJobs(t, on, kind, a, k) ==
    IF on \in resolved[t] THEN <<ReactionJob(kind, t, a, k)>> ELSE <<>>
ThenWaiting(t, on, kind, a, k) ==
    IF on \in resolved[t] THEN waiting[t]
    ELSE Append(waiting[t], [kind |-> kind, a |-> a, on |-> on, k |-> k])

\* #updateAction(id, {status})
updateAction(t, a, status) == [actions EXCEPT ![t][a].status = status]
\* #updateAction(actionId, { status: 'failed', error: 'Action failed' })
failAction(t, a) ==
    [actions EXCEPT ![t][a].status = "failed", ![t][a].error = "Action failed"]

\* addAction as it would be if it chained the execution itself
addActionExecutes(t, a, d) ==
    /\ CanCall
    /\ \A b \in 1..(a - 1) : actions[t][b].present
    /\ IF actions[t][a].present
       THEN UNCHANGED <<actions, waiting, mq>>
       ELSE /\ actions' = [actions EXCEPT ![t][a] =
                    [present |-> TRUE, type |-> d.type, filePath |-> d.filePath,
                     content |-> d.content, status |-> "pending",
                     executed |-> FALSE, aborted |-> FALSE, error |-> ""]]
            /\ waiting' = [waiting EXCEPT ![t] = ThenWaiting(t, tail[t], "exec", a, tail[t])]
            /\ mq' = mq \o ThenJobs(t, tail[t], "exec", a, tail[t])
    /\ UNCHANGED <<tail, resolved, co, submitLog, execLog, draining>>
    /\ UNCHANGED <<linkVars, fsVars, syncVars>>

\* addAction as it would be without the test on the stored action
addActionReregisters(t, a, d) ==
    /\ CanCall
    /\ \A b \in 1..(a - 1) : actions[t][b].present
    /\ actions' = [actions EXCEPT ![t][a] =
            [present |-> TRUE, type |-> d.type, filePath |-> d.filePath,
             content |-> d.content, status |-> "pending",
             executed |-> FALSE, aborted |-> FALSE, error |-> ""]]
    /\ waiting' = [waiting EXCEPT ![t] = ThenWaiting(t, tail[t], "running", a, 0)]
    /\ mq' = mq \o ThenJobs(t, tail[t], "running", a, 0)
    /\ UNCHANGED <<tail, resolved, co, submitLog, execLog, draining>>
    /\ UNCHANGED <<linkVars, fsVars, syncVars>>

\* addAction(data)
addAction(t, a, d) ==
    /\ CanCall
    /\ \A b \in 1..(a - 1) : actions[t][b].present
    /\ IF actions[t][a].present
       THEN UNCHANGED <<actions, waiting, mq>>
       ELSE /\ actions' = [actions EXCEPT ![t][a] =
                    [present |-> TRUE, type |-> d.type, filePath |-> d.filePath,
                     content |-> d.content, status |-> "pending",
                     executed |-> FALSE, aborted |-> FALSE, error |-> ""]]
            /\ waiting' = [waiting EXCEPT ![t] = ThenWaiting(t, tail[t], "running", a, 0)]
            /\ mq' = mq \o ThenJobs(t, tail[t], "running", a, 0)
    /\ UNCHANGED <<tail, resolved, co, submitLog, execLog, draining>>
    /\ UNCHANGED <<linkVars, fsVars, syncVars>>

\* runAction past its guard: the stored action takes data.action and
\* executed, and the execution is chained on promise `on`
Submit(t, a, d, on) ==
    /\ actions' = [actions EXCEPT ![t][a] =
            [@ EXCEPT !.type = d.type, !.filePath = d.filePath,
                      !.content = d.content, !.executed = TRUE]]
    /\ tail' = [tail EXCEPT ![t] = @ + 1]
    /\ waiting' = [waiting EXCEPT ![t] = ThenWaiting(t, on, "exec", a, tail[t] + 1)]
    /\ mq' = mq \o ThenJobs(t, on, "exec", a, tail[t] + 1)
    /\ submitLog' = [submitLog EXCEPT ![t] = Append(@, a)]

\* runAction as it would be if the execution were chained on Promise.resolve()
runActionUnchained(t, a, d) ==
    /\ CanCall
    /\ actions[t][a].present
    /\ IF actions[t][a].executed
       THEN UNCHANGED <<actions, tail, waiting, submitLog, mq>>
       ELSE Submit(t, a, d, 0)
    /\ UNCHANGED <<resolved, co, execLog, draining>>
    /\ UNCHANGED <<linkVars, fsVars, syncVars>>

\* runAction as it would be without the guard on executed
runActionAgain(t, a, d) ==
    /\ CanCall
    /\ actions[t][a].present
    /\ Submit(t, a, d, tail[t])
    /\ UNCHANGED <<resolved, co, execLog, draining>>
    /\ UNCHANGED <<linkVars, fsVars, syncVars>>

\* runAction as it would be if a later call still stored data.action
runActionAmends(t, a, d) ==
    /\ CanCall
    /\ actions[t][a].present
    /\ IF actions[t][a].executed
       THEN /\ actions' = [actions EXCEPT ![t][a] =
                    [@ EXCEPT !.type = d.type, !.filePath = d.filePath,
                              !.content = d.content]]
            /\ UNCHANGED <<tail, waiting, submitLog, mq>>
       ELSE Submit(t, a, d, tail[t])
    /\ UNCHANGED <<resolved, co, execLog, draining>>
    /\ UNCHANGED <<linkVars, fsVars, syncVars>>

\* runAction(data)
runAction(t, a, d) ==
    /\ CanCall
    /\ actions[t][a].present
    /\ IF actions[t][a].executed
       THEN UNCHANGED <<actions, tail, waiting, submitLog, mq>>
       ELSE Submit(t, a, d, tail[t])
    /\ UNCHANGED <<resolved, co, execLog, draining>>
    /\ UNCHANGED <<linkVars, fsVars, syncVars>>

\* action.abort(): abortController.abort() and status aborted
abort(t, a) ==
    /\ CanCall
    /\ actions[t][a].present
    /\ actions' = [actions EXCEPT ![t][a].aborted = TRUE, ![t][a].status = "aborted"]
    /\ UNCHANGED <<tail, resolved, waiting, co, submitLog, execLog, mq, draining>>
    /\ UNCHANGED <<linkVars, fsVars, syncVars>>

\* the reaction addAction registered: status running
runningReaction ==
    /\ mq # <<>>
    /\ Head(mq).type = "running"
    /\ actions' = updateAction(Head(mq).t, Head(mq).a, "running")
    /\ mq' = Tail(mq)
    /\ draining' = (mq' # <<>>)
    /\ UNCHANGED <<tail, resolved, waiting, co, submitLog, execLog>>
    /\ UNCHANGED <<linkVars, fsVars, syncVars>>

ExecEndJob(t, a, outcome, k) == Job("execEnd", t, a, 0, outcome, k)

\* #runFileAction with i directories made: the next makeDirectory, or writeFile
FileStep(t, a, snap, i, k) ==
    LET dirs == SandboxDirs(snap.filePath) IN
    /\ Len(ops) < MaxOps
    /\ IF i < Len(dirs)
       THEN /\ makeDirectory(dirs[i + 1], Owner(t, a))
            /\ co' = [co EXCEPT ![t][a] = [pc |-> "mkdir", i |-> i + 1,
                                           op |-> Len(ops) + 1, snap |-> snap, k |-> k]]
            /\ mq' = Tail(mq) \o IssueJobs("makeDirectory", Owner(t, a))
       ELSE /\ writeFile(SandboxPath(snap.filePath), Owner(t, a))
            /\ co' = [co EXCEPT ![t][a] = [pc |-> "write", i |-> i,
                                           op |-> Len(ops) + 1, snap |-> snap, k |-> k]]
            /\ mq' = Tail(mq) \o IssueJobs("writeFile", Owner(t, a))
    /\ UNCHANGED <<isConnected, isConnecting, fileWriteCallback, makeDirectoryCallback,
                   runCommandCallback, isProcessingQueue>>
    /\ UNCHANGED <<fsVars, syncVars>>

\* the end of #runFileAction: this.#filesStore.addFile(filePath, content)
FileStore(t, a, snap, k) ==
    /\ addFile(snap.filePath, snap.content)
    /\ addFileLog' = addFileLog \cup {<<snap.filePath, snap.content>>}
    /\ co' = [co EXCEPT ![t][a] = [pc |-> "ending", i |-> 0, op |-> 0,
                                   snap |-> snap, k |-> k]]
    /\ mq' = Tail(mq) \o <<ExecEndJob(t, a, "ok", k)>>
    /\ UNCHANGED <<linkVars, syncVars>>

\* #runFileAction(action) from its start
runFileAction(t, a, snap, k) ==
    IF isReady THEN FileStep(t, a, snap, 0, k) ELSE FileStore(t, a, snap, k)

\* #runShellAction(action) from its start
runShellAction(t, a, snap, k) ==
    IF isReady
    THEN /\ Len(ops) < MaxOps
         /\ runCommand(snap.content, Owner(t, a))
         /\ co' = [co EXCEPT ![t][a] = [pc |-> "cmd", i |-> 0, op |-> Len(ops) + 1,
                                        snap |-> snap, k |-> k]]
         /\ mq' = Tail(mq) \o IssueJobs("runCommand", Owner(t, a))
         /\ UNCHANGED <<isConnected, isConnecting, fileWriteCallback,
                        makeDirectoryCallback, runCommandCallback, isProcessingQueue>>
         /\ UNCHANGED <<fsVars, syncVars>>
    ELSE /\ co' = [co EXCEPT ![t][a] = [pc |-> "ending", i |-> 0, op |-> 0,
                                        snap |-> snap, k |-> k]]
         /\ mq' = Tail(mq) \o <<ExecEndJob(t, a, "ok", k)>>
         /\ UNCHANGED <<linkVars, fsVars, syncVars>>

\* #executeAction(actionId), entered by the reaction runAction chained
executeAction ==
    /\ mq # <<>>
    /\ Head(mq).type = "exec"
    /\ LET t == Head(mq).t
           a == Head(mq).a
           action == Snapshot(actions[t][a])
       IN /\ actions' = updateAction(t, a, "running")
          /\ execLog' = [execLog EXCEPT ![t] = Append(@, a)]
          /\ IF action.type = "shell"
             THEN runShellAction(t, a, action, Head(mq).k)
             ELSE runFileAction(t, a, action, Head(mq).k)
    /\ draining' = (mq' # <<>>)
    /\ UNCHANGED <<tail, resolved, waiting, submitLog>>

ResumeOf(pc) ==
    /\ mq # <<>>
    /\ Head(mq).type = "resume"
    /\ co[Head(mq).t][Head(mq).a].op = Head(mq).op
    /\ co[Head(mq).t][Head(mq).a].pc = pc
    /\ UNCHANGED <<actions, tail, resolved, waiting, submitLog, execLog>>

\* an awaited sandbox call rejected: #runFileAction / #runShellAction rethrow
awaitRejected ==
    /\ mq # <<>>
    /\ ResumeOf(co[Head(mq).t][Head(mq).a].pc)
    /\ ops[Head(mq).op].state = "rejected"
    /\ LET t == Head(mq).t
           a == Head(mq).a
       IN /\ co' = [co EXCEPT ![t][a].pc = "ending", ![t][a].op = 0]
          /\ mq' = Tail(mq) \o <<ExecEndJob(t, a, "throw", co[t][a].k)>>
    /\ draining' = (mq' # <<>>)
    /\ UNCHANGED <<linkVars, fsVars, syncVars>>

\* await e2bStore.makeDirectory(currentPath) returned
afterMakeDirectory ==
    /\ ResumeOf("mkdir")
    /\ ops[Head(mq).op].state = "resolved"
    /\ LET c == co[Head(mq).t][Head(mq).a]
       IN FileStep(Head(mq).t, Head(mq).a, c.snap, c.i, c.k)
    /\ draining' = (mq' # <<>>)

\* await e2bStore.writeFile(normalizedPath, content) returned
afterWriteFile ==
    /\ ResumeOf("write")
    /\ ops[Head(mq).op].state = "resolved"
    /\ LET c == co[Head(mq).t][Head(mq).a]
       IN FileStore(Head(mq).t, Head(mq).a, c.snap, c.k)
    /\ draining' = (mq' # <<>>)

\* await e2bStore.runCommand(content) returned
afterRunCommand ==
    /\ ResumeOf("cmd")
    /\ ops[Head(mq).op].state = "resolved"
    /\ LET t == Head(mq).t
           a == Head(mq).a
       IN /\ co' = [co EXCEPT ![t][a].pc = "ending", ![t][a].op = 0]
          /\ mq' = Tail(mq) \o <<ExecEndJob(t, a, "ok", co[t][a].k)>>
    /\ draining' = (mq' # <<>>)
    /\ UNCHANGED <<linkVars, fsVars, syncVars>>

\* the reactions waiting for promise k of turn t, in registration order
ReactionsOn(t, k) == SelectSeq(waiting[t], LAMBDA r : r.on = k)
RECURSIVE JobsOf(_, _)
JobsOf(t, rs) ==
    IF rs = <<>> THEN <<>>
    ELSE <<ReactionJob(Head(rs).kind, t, Head(rs).a, Head(rs).k)>> \o JobsOf(t, Tail(rs))

\* the end of #executeAction as it would be if runAction's catch rethrew: the
\* promise of the chain is rejected and the reactions on it never run
executeActionEndRethrows ==
    /\ mq # <<>>
    /\ Head(mq).type = "execEnd"
    /\ LET t == Head(mq).t
           a == Head(mq).a
           k == Head(mq).k
       IN IF Head(mq).outcome = "ok"
          THEN /\ actions' = updateAction(t, a,
                     IF actions[t][a].aborted THEN "aborted" ELSE "complete")
               /\ co' = [co EXCEPT ![t][a].pc = "done"]
               /\ resolved' = [resolved EXCEPT ![t] = @ \cup {k}]
               /\ waiting' = [waiting EXCEPT ![t] = SelectSeq(@, LAMBDA r : r.on # k)]
               /\ mq' = Tail(mq) \o JobsOf(t, ReactionsOn(t, k))
          ELSE /\ actions' = failAction(t, a)
               /\ co' = [co EXCEPT ![t][a].pc = "threw"]
               /\ mq' = Tail(mq)
               /\ UNCHANGED <<resolved, waiting>>
    /\ draining' = (mq' # <<>>)
    /\ UNCHANGED <<tail, submitLog, execLog>>
    /\ UNCHANGED <<linkVars, fsVars, syncVars>>

\* the end of #executeAction as it would be if it did not look at the
\* cancellation token
executeActionEndCompletes ==
    /\ mq # <<>>
    /\ Head(mq).type = "execEnd"
    /\ LET t == Head(mq).t
           a == Head(mq).a
           k == Head(mq).k
       IN /\ IF Head(mq).outcome = "ok"
             THEN /\ actions' = updateAction(t, a, "complete")
                  /\ co' = [co EXCEPT ![t][a].pc = "done"]
             ELSE /\ actions' = failAction(t, a)
                  /\ co' = [co EXCEPT ![t][a].pc = "threw"]
          /\ resolved' = [resolved EXCEPT ![t] = @ \cup {k}]
          /\ waiting' = [waiting EXCEPT ![t] = SelectSeq(@, LAMBDA r : r.on # k)]
          /\ mq' = Tail(mq) \o JobsOf(t, ReactionsOn(t, k))
    /\ draining' = (mq' # <<>>)
    /\ UNCHANGED <<tail, submitLog, execLog>>
    /\ UNCHANGED <<linkVars, fsVars, syncVars>>

\* the end of #executeAction as it would be if a failure failed the whole turn
executeActionEndFailsTurn ==
    /\ mq # <<>>
    /\ Head(mq).type = "execEnd"
    /\ LET t == Head(mq).t
           a == Head(mq).a
           k == Head(mq).k
       IN /\ IF Head(mq).outcome = "ok"
             THEN /\ actions' = updateAction(t, a,
                        IF actions[t][a].aborted THEN "aborted" ELSE "complete")
                  /\ co' = [co EXCEPT ![t][a].pc = "done"]
             ELSE /\ actions' = [actions EXCEPT ![t] =
                          [b \in ActionIds |->
                              IF @[b].present
                              THEN [@[b] EXCEPT !.status = "failed",
                                                !.error = "Action failed"]
                              ELSE @[b]]]
                  /\ co' = [co EXCEPT ![t][a].pc = "threw"]
          /\ resolved' = [resolved EXCEPT ![t] = @ \cup {k}]
          /\ waiting' = [waiting EXCEPT ![t] = SelectSeq(@, LAMBDA r : r.on # k)]
          /\ mq' = Tail(mq) \o JobsOf(t, ReactionsOn(t, k))
    /\ draining' = (mq' # <<>>)
    /\ UNCHANGED <<tail, submitLog, execLog>>
    /\ UNCHANGED <<linkVars, fsVars, syncVars>>

\* the end of #executeAction: status complete or aborted, or failed and the
\* error rethrown; runAction's catch logs it, and the promise of the chain
\* resolves either way
executeActionEnd ==
    /\ mq # <<>>
    /\ Head(mq).type = "execEnd"
    /\ LET t == Head(mq).t
           a == Head(mq).a
           k == Head(mq).k
       IN /\ IF Head(mq).outcome = "ok"
             THEN /\ actions' = updateAction(t, a,
                        IF actions[t][a].aborted THEN "aborted" ELSE "complete")
                  /\ co' = [co EXCEPT ![t][a].pc = "done"]
             ELSE /\ actions' = failAction(t, a)
                  /\ co' = [co EXCEPT ![t][a].pc = "threw"]
          /\ resolved' = [resolved EXCEPT ![t] = @ \cup {k}]
          /\ waiting' = [waiting EXCEPT ![t] = SelectSeq(@, LAMBDA r : r.on # k)]
          /\ mq' = Tail(mq) \o JobsOf(t, ReactionsOn(t, k))
    /\ draining' = (mq' # <<>>)
    /\ UNCHANGED <<tail, submitLog, execLog>>
    /\ UNCHANGED <<linkVars, fsVars, syncVars>>

----------------------------------------------------------------------------
Chats == {"chatA", "chatB"}

\* syncMissingFiles is not running and has not returned anything yet
IdleSync == [pc |-> "idle", t |-> NoTurn, fileActions |-> <<>>, currentFiles |-> <<>>,
             n |-> 0, i |-> 0, op |-> 0, failed |-> 0,
             synced |-> 0, total |-> 0, missing |-> <<>>]

Init ==
    /\ isConnected = FALSE
    /\ isConnecting = FALSE
    /\ fileWriteCallback = FALSE
    /\ makeDirectoryCallback = FALSE
    /\ runCommandCallback = FALSE
    /\ pendingOperations = <<>>
    /\ isProcessingQueue = FALSE
    /\ ops = <<>>
    /\ invokeLog = <<>>
    /\ actions = [t \in Turns |-> [a \in ActionIds |-> NoAction]]
    /\ tail = [t \in Turns |-> 0]
    /\ resolved = [t \in Turns |-> {0}]
    /\ waiting = [t \in Turns |-> <<>>]
    /\ co = [t \in Turns |-> [a \in ActionIds |-> IdleCo]]
    /\ submitLog = [t \in Turns |-> <<>>]
    /\ execLog = [t \in Turns |-> <<>>]
    /\ files = <<>>
    /\ size = 0
    /\ modifiedFiles = <<>>
    /\ chatId = NoChat
    /\ storage = [c \in Chats |-> <<>>]
    /\ addFileLog = {}
    /\ mq = <<>>
    /\ draining = FALSE
    /\ sync = IdleSync

\* the producer of turn t registers, submits and aborts the actions ids of the
\* turn, with action data out of data
ProducerOf(t, ids, data) ==
    \E a \in ids :
        \/ \E d \in Open(data) : addAction(t, a, d)
        \/ \E d \in data :
              /\ d.type = actions[t][a].type
              /\ d.filePath = actions[t][a].filePath
              /\ runAction(t, a, d)
        \/ abort(t, a)

Producer == ProducerOf("t1", ActionIds, ActionData)

Application ==
    \/ \E b \in BOOLEAN : setConnected(b)
    \/ \E b \in BOOLEAN : setConnecting(b)
    \/ registerSandboxCallbacks
    \/ reset

Sandbox == \E o \in 1..MaxOps, outcome \in Outcomes : CallbackSettles(o, outcome)

Microtask ==
    \/ runningReaction
    \/ executeAction
    \/ awaitRejected
    \/ afterMakeDirectory
    \/ afterWriteFile
    \/ afterRunCommand
    \/ executeActionEnd

Next == Producer \/ Application \/ Sandbox \/ Microtask

Spec == Init /\ [][Next]_vars

\* the sandbox link with callers that are not modelled further
Client == \E kind \in Kinds : ClientCall(kind)

NextLink == Application \/ Client \/ Sandbox

SpecLink == Init /\ [][NextLink]_vars

\* the file store with the calls its users make on it
AddPaths == {<<"a.txt">>, WORK_DIR \o <<SLASH, "a.txt">>, <<"src">>,
             <<"src", SLASH, "f.ts">>,
             <<SLASH, "src", SLASH, "nested", SLASH, "file.ts">>}
SavePaths == {WORK_DIR \o <<SLASH, "a.txt">>, WORK_DIR \o <<SLASH, "src">>}
OtherVars == <<linkVars, runnerVars, loopVars, syncVars>>

StoreAdd == \E p \in AddPaths, c \in Contents :
               addFile(p, c) /\ UNCHANGED <<addFileLog, OtherVars>>
StoreSave == \E p \in SavePaths, c \in Contents :
                saveFile(p, c) /\ UNCHANGED OtherVars
StoreChat == \E c \in {"chatA", NoChat} : setChatId(c) /\ UNCHANGED OtherVars
StoreReset == resetFiles /\ UNCHANGED OtherVars
StoreResetModifications == resetFileModifications /\ UNCHANGED OtherVars

NextFiles == StoreAdd \/ StoreSave \/ StoreChat \/ StoreReset \/ StoreResetModifications

SpecFiles == Init /\ [][NextFiles]_vars

\* the file store used by two conversations
ChatAddPaths == {<<"src", SLASH, "f.ts">>}
ChatSavePaths == {WORK_DIR \o <<SLASH, "a.txt">>}

ChatAdd == \E p \in ChatAddPaths, c \in Contents :
              addFile(p, c) /\ UNCHANGED <<addFileLog, OtherVars>>
ChatSave == \E p \in ChatSavePaths, c \in Contents :
               saveFile(p, c) /\ UNCHANGED OtherVars
ChatSwitch == \E c \in Chats \cup {NoChat} : setChatId(c) /\ UNCHANGED OtherVars

NextChats == ChatAdd \/ ChatSave \/ ChatSwitch \/ StoreReset

SpecChats == Init /\ [][NextChats]_vars

\* two turns with one action each, the second turn's a shell action
ShellData == {d \in ActionData : d.type = "shell"}
FirstTurn == ProducerOf("t1", {1}, ActionData)
SecondTurn == ProducerOf("t2", {1}, ShellData)

NextTurns == FirstTurn \/ SecondTurn \/ Application \/ Sandbox \/ Microtask

SpecTurns == Init /\ [][NextTurns]_vars /\ WF_vars(Microtask)

\* one turn with one action: a file below a directory, or a shell command
SRC_F_TS == <<"src", SLASH, "f.ts">>
NestedData ==
    [type : {"file"}, filePath : {SRC_F_TS}, content : Contents] \cup ShellData
NestedTurn ==
    \E d \in NestedData :
        \/ d \in Open(NestedData) /\ addAction("t1", 1, d)
        \/ /\ d.type = actions["t1"][1].type
           /\ runAction("t1", 1, d)
        \/ abort("t1", 1)

NextNested == NestedTurn \/ Application \/ Sandbox \/ Microtask

SpecNested == Init /\ [][NextNested]_vars

\* the event loop runs every queued microtask
SpecFair == Init /\ [][Next]_vars /\ WF_vars(Microtask)


----------------------------------------------------------------------------
(* WorkbenchStore.syncMissingFiles(messageId): every file action of the    *)
(* message whose file is not in the editor's store is added to the store   *)
(* and, when the sandbox is ready, written to the sandbox.                 *)

\* Object.values(actions).filter((action) => action.type === 'file'), from id a on
RECURSIVE FileActionsFrom(_, _)
FileActionsFrom(t, a) ==
    IF a > MaxActions THEN <<>>
    ELSE (IF actions[t][a].present /\ actions[t][a].type = "file"
          THEN <<Snapshot(actions[t][a])>> ELSE <<>>) \o FileActionsFrom(t, a + 1)

FileActions(t) == FileActionsFrom(t, 1)

\* the lookup key as it would be if the action's path were used as it is
SyncPathAsIs(filePath) == filePath

\* action.filePath.startsWith(WORK_DIR) ? action.filePath : `${WORK_DIR}/${action.filePath}`
SyncNormalizedPath(filePath) ==
    IF StartsWith(filePath, WORK_DIR) THEN filePath ELSE WORK_DIR \o <<SLASH>> \o filePath

\* !existingFile || existingFile.type !== 'file'
IsMissing(currentFiles, filePath) == ~HasFile(currentFiles, SyncNormalizedPath(filePath))

\* the loop over fileActions from action s.n on, up to the first await or the
\* return: fs and sz are the store's file map and counter so far, added tells
\* whether addFile was called
RECURSIVE SyncRun(_, _, _, _)
SyncRun(s, fs, sz, added) ==
    IF s.n > Len(s.fileActions)
    THEN [sync |-> [s EXCEPT !.pc = "idle"], files |-> fs, size |-> sz, added |-> added]
    ELSE LET action == s.fileActions[s.n] IN
         IF ~IsMissing(s.currentFiles, action.filePath)
         THEN SyncRun([s EXCEPT !.n = @ + 1], fs, sz, added)
         ELSE LET r == AddFileTo(fs, sz, action.filePath, action.content)
                  s1 == [s EXCEPT !.missing = Append(@, action.filePath)]
              IN IF isReady
                 THEN [sync |-> [s1 EXCEPT !.pc = "sandbox", !.i = 0],
                       files |-> r.files, size |-> r.size, added |-> TRUE]
                 ELSE SyncRun([s1 EXCEPT !.synced = @ + 1, !.n = @ + 1],
                              r.files, r.size, TRUE)

\* the sandbox part of one repair: the next makeDirectory or the writeFile
SyncSandboxStep(s, rest) ==
    LET e2bPath == SandboxPath(s.fileActions[s.n].filePath)
        dirs == SandboxDirs(s.fileActions[s.n].filePath)
    IN /\ Len(ops) < MaxOps
       /\ IF s.i < Len(dirs)
          THEN /\ makeDirectory(dirs[s.i + 1], SyncOwner)
               /\ sync' = [s EXCEPT !.pc = "mkdir", !.i = @ + 1, !.op = Len(ops) + 1]
               /\ mq' = rest \o IssueJobs("makeDirectory", SyncOwner)
          ELSE /\ writeFile(e2bPath, SyncOwner)
               /\ sync' = [s EXCEPT !.pc = "write", !.op = Len(ops) + 1]
               /\ mq' = rest \o IssueJobs("writeFile", SyncOwner)
       /\ UNCHANGED <<isConnected, isConnecting, fileWriteCallback, makeDirectoryCallback,
                      runCommandCallback, isProcessingQueue>>

\* the call runs on from the loop state s until it awaits or returns
SyncAdvance(s, rest) ==
    LET r == SyncRun(s, files, size, FALSE) IN
    /\ files' = r.files
    /\ size' = r.size
    /\ storage' = IF r.added THEN persistToStorage(r.files) ELSE storage
    /\ IF r.sync.pc = "sandbox"
       THEN SyncSandboxStep(r.sync, rest)
       ELSE /\ sync' = r.sync
            /\ mq' = rest
            /\ UNCHANGED linkVars
    /\ draining' = (mq' # <<>>)
    /\ UNCHANGED <<modifiedFiles, chatId, addFileLog>>
    /\ UNCHANGED runnerVars

\* syncMissingFiles(messageId), from the call to its first await or its return
syncMissingFiles(t) ==
    /\ Idle
    /\ sync.pc = "idle"
    /\ SyncAdvance([IdleSync EXCEPT !.pc = "loop", !.t = t,
                                    !.fileActions = FileActions(t),
                                    !.currentFiles = files,
                                    !.total = Len(FileActions(t)),
                                    !.n = 1], <<>>)

SyncResumes(pc, state) ==
    /\ mq # <<>>
    /\ Head(mq).type = "syncResume"
    /\ sync.pc = pc
    /\ sync.op = Head(mq).op
    /\ ops[sync.op].state = state

\* await e2bStore.makeDirectory(currentPath) has returned
afterSyncMakeDirectory ==
    /\ SyncResumes("mkdir", "resolved")
    /\ SyncSandboxStep(sync, Tail(mq))
    /\ draining' = (mq' # <<>>)
    /\ UNCHANGED <<runnerVars, fsVars>>

\* await e2bStore.writeFile(e2bPath, action.content) has returned: syncedCount++
afterSyncWriteFile ==
    /\ SyncResumes("write", "resolved")
    /\ SyncAdvance([sync EXCEPT !.synced = @ + 1, !.n = @ + 1, !.i = 0, !.op = 0],
                   Tail(mq))

\* the rejection as it would be handled by a try block around the whole loop:
\* the call returns at once
syncRejectedAborts ==
    /\ \E pc \in {"mkdir", "write"} : SyncResumes(pc, "rejected")
    /\ sync' = [sync EXCEPT !.pc = "idle", !.failed = @ + 1, !.i = 0, !.op = 0]
    /\ mq' = Tail(mq)
    /\ draining' = (mq' # <<>>)
    /\ UNCHANGED <<linkVars, runnerVars, fsVars>>

\* an awaited sandbox operation was rejected: the catch block logs and the
\* loop goes on with the next action
syncRejected ==
    /\ \E pc \in {"mkdir", "write"} : SyncResumes(pc, "rejected")
    /\ SyncAdvance([sync EXCEPT !.failed = @ + 1, !.n = @ + 1, !.i = 0, !.op = 0],
                   Tail(mq))

\* the file actions of the reconciled message
SyncPaths == {<<"a.txt">>, <<SLASH, "a.txt">>, <<"src">>, <<"src", SLASH, "f.ts">>}
SyncData == [type : {"file"}, filePath : SyncPaths, content : Contents]
                \cup [type : {"shell"}, filePath : {<<>>}, content : Commands]

\* the message's actions are registered; none of them is run
SyncProducer == \E a \in ActionIds, d \in Open(SyncData) : addAction("t1", a, d)

SyncCall == syncMissingFiles("t1")

SyncMicrotask == afterSyncMakeDirectory \/ afterSyncWriteFile \/ syncRejected

NextSync ==
    SyncProducer \/ SyncCall \/ Application \/ Sandbox \/ runningReaction \/ SyncMicrotask

SpecSync == Init /\ [][NextSync]_vars

\* the runner, the store and the reconciler while no sandbox is attached: the
\* actions of the message are registered and run, the editor's files can be
\* reset, and the message is reconciled
LocalData == [type : {"file"}, filePath : FilePaths, content : Contents]
LocalProducer == ProducerOf("t1", ActionIds, LocalData)
LocalMicrotask == runningReaction \/ executeAction \/ executeActionEnd

NextLocal == LocalProducer \/ LocalMicrotask \/ SyncCall \/ StoreReset

SpecLocal == Init /\ [][NextLocal]_vars


----------------------------------------------------------------------------
(* Properties of the ActionRunner.                                          *)

Range(q) == {q[i] : i \in DOMAIN q}
IsPrefix(p, q) == Len(p) <= Len(q) /\ SubSeq(q, 1, Len(p)) = p
Count(x, q) == Cardinality({i \in DOMAIN q : q[i] = x})
Inside(t, a) == co[t][a].pc \in {"mkdir", "write", "cmd", "ending"}
Ended(t, a) == co[t][a].pc \in {"done", "threw"}
Suspended(t, a) == co[t][a].pc \in {"mkdir", "write", "cmd"}
Terminal == {"complete", "aborted", "failed"}

\* C1: within a turn the actions enter #executeAction in the order of their
\* first runAction calls, whatever the order of the addAction calls and
\* however the sandbox callbacks settle.
C1_SubmissionOrder == \A t \in Turns : IsPrefix(execLog[t], submitLog[t])

\* two actions registered in one order and submitted in the other, the first
\* executed one having waited for the sandbox
C1_Witness ==
    /\ execLog["t1"] = <<2, 1>>
    /\ \E o \in DOMAIN ops : ops[o].owner = Owner("t1", 2) /\ ops[o].invoked
    /\ Ended("t1", 1)

\* C2: no two actions of a turn are inside #executeAction at once: an action
\* is entered only when every action submitted before it has ended, also
\* while an execution is suspended on a sandbox call.
C2_OneAtATime ==
    \A t \in Turns :
        /\ Cardinality({a \in ActionIds : Inside(t, a)}) <= 1
        /\ \A i, j \in DOMAIN submitLog[t] :
              i < j /\ co[t][submitLog[t][j]].pc # "idle" => Ended(t, submitLog[t][i])

\* an execution suspended on a sandbox call while a later submitted action waits
C2_Witness ==
    \E a, b \in ActionIds :
        /\ Suspended("t1", a)
        /\ ops[co["t1"][a].op].state = "invoked"
        /\ actions["t1"][b].executed
        /\ co["t1"][b].pc = "idle"

\* C3: an execution that throws does not stop the chain: once the actions
\* submitted before an action have ended, failed or not, and the microtasks
\* have run, that action has been entered; and an execution that ends without
\* throwing and was not aborted leaves its action complete.
C3_FailureDoesNotBlock ==
    \A t \in Turns :
        /\ \A j \in DOMAIN submitLog[t] :
              (Idle /\ \A i \in 1..(j - 1) : Ended(t, submitLog[t][i]))
                 => co[t][submitLog[t][j]].pc # "idle"
        /\ \A a \in ActionIds :
              co[t][a].pc = "done" /\ ~actions[t][a].aborted
                 => actions[t][a].status = "complete"

\* a failed action followed by one that completed
C3_Witness ==
    \E a, b \in ActionIds :
        /\ submitLog["t1"] = <<a, b>>
        /\ co["t1"][a].pc = "threw"
        /\ actions["t1"][a].status = "failed"
        /\ actions["t1"][b].status = "complete"

\* the exec reactions for action a that are queued or waiting
ExecRequests(t, a) ==
    Cardinality({i \in DOMAIN mq : mq[i].type = "exec" /\ mq[i].t = t /\ mq[i].a = a})
    + Cardinality({i \in DOMAIN waiting[t] :
                      waiting[t][i].kind = "exec" /\ waiting[t][i].a = a})

\* C4: an action is chained and executed at most once; once its executed flag
\* is set no step, a repeated runAction included, chains it again, clears the
\* flag or changes its type, path or content.
C4_ExactlyOnce ==
    /\ [](\A t \in Turns, a \in ActionIds :
             Count(a, submitLog[t]) <= 1 /\ Count(a, execLog[t]) <= 1)
    /\ [][\A t \in Turns, a \in ActionIds :
             actions[t][a].executed =>
                /\ actions'[t][a].executed
                /\ Snapshot(actions'[t][a]) = Snapshot(actions[t][a])
                /\ submitLog'[t] # Append(submitLog[t], a)
                /\ ExecRequests(t, a)' <= ExecRequests(t, a)]_vars

\* an executed, completed action while the producer may call runAction again
\* and another action is still to be submitted
C4_Witness ==
    \E a, b \in ActionIds :
        /\ actions["t1"][a].executed
        /\ actions["t1"][a].status = "complete"
        /\ actions["t1"][b].present
        /\ ~actions["t1"][b].executed
        /\ CanCall

\* C5: every executed file action has had addFile called with its path and
\* content, however the sandbox calls ended.
C5_AddFileAlways ==
    \A t \in Turns, a \in ActionIds :
        (actions[t][a].type = "file" /\ Ended(t, a))
           => <<actions[t][a].filePath, actions[t][a].content>> \in addFileLog


Stored(t, a) ==
    /\ HasFile(files, NormalizedPath(actions[t][a].filePath))
    /\ actions[t][a].status \in Terminal
SubmittedFile(t, a) == actions[t][a].executed /\ actions[t][a].type = "file"

\* C6: if the sandbox never becomes reachable (never connected, no callbacks
\* ever registered), every submitted file action eventually has its file in
\* the store and a terminal status.
C6_LocalOnly ==
    \/ <>(isConnected \/ fileWriteCallback)
    \/ \A t \in Turns, a \in ActionIds : SubmittedFile(t, a) ~> Stored(t, a)

----------------------------------------------------------------------------
(* Properties of the sandbox link.                                          *)

Increasing(q) == \A i, j \in DOMAIN q : i < j => q[i] < q[j]
QueuedOps(q) == SelectSeq(q, LAMBDA o : ops[o].mode = "queued")
Issued == Len(ops') = Len(ops) + 1
NewOpId == Len(ops) + 1
Disconnected == ~isConnected /\ ~isConnecting

C8_ResolvedByCallback ==
    \A o \in DOMAIN ops :
        ops[o].mode = "queued" /\ ops[o].state = "resolved" => ops[o].invoked

\* C9: no callback is invoked for an operation issued after one that is still
\* waiting in pendingOperations.
C9_NoOvertaking ==
    \A q \in Range(pendingOperations), o \in Range(invokeLog) : o < q

RejectedByReset(o) == ops[o].state = "rejected" /\ ~ops[o].invoked

\* C11: reset rejects the promise of every operation in pendingOperations and
\* empties the queue; an operation rejected that way is never queued again,
\* never has a callback invoked for it and never changes again.
C11_ResetRejectsQueue ==
    /\ [](\A o \in DOMAIN ops :
             RejectedByReset(o) =>
                 o \notin Range(pendingOperations) /\ o \notin Range(invokeLog))
    /\ [][/\ reset => /\ \A o \in Range(pendingOperations) :
                            ops'[o].state = "rejected" /\ ~ops'[o].invoked
                      /\ pendingOperations' = <<>>
          /\ \A o \in DOMAIN ops : RejectedByReset(o) => ops'[o] = ops[o]]_vars

\* two queued operations rejected by reset, callbacks registered afterwards
C11_Witness ==
    /\ Len(ops) >= 2
    /\ RejectedByReset(1) /\ RejectedByReset(2)
    /\ ops[1].mode = "queued" /\ ops[2].mode = "queued"
    /\ fileWriteCallback /\ makeDirectoryCallback /\ runCommandCallback
    /\ ~isProcessingQueue

\* the callback invoked by the drain for queued operation o rejects
DrainCallbackRejects(o) ==
    /\ o \in DOMAIN ops
    /\ ops[o].mode = "queued"
    /\ ops[o].state = "invoked"
    /\ ops'[o].state = "rejected"

\* C12: when the callback of a queued operation rejects during the drain, only
\* that operation's promise is rejected, and the operation behind it in the
\* queue has its callback invoked next.
C12_DrainFailureIsolated ==
    [][\A o \in 1..MaxOps :
          DrainCallbackRejects(o) =>
              /\ \A x \in DOMAIN ops : x # o => ops'[x].state # "rejected"
                                                 \/ ops[x].state = "rejected"
              /\ pendingOperations # <<>> =>
                    /\ ops'[Head(pendingOperations)].state = "invoked"
                    /\ invokeLog' = Append(invokeLog, Head(pendingOperations))
                    /\ pendingOperations' = Tail(pendingOperations)]_vars

\* C13: no operation has a callback invoked twice, at most one queued operation
\* is being processed at a time and only under isProcessingQueue, and a
\* registerSandboxCallbacks made with an empty queue or during a drain invokes
\* nothing and takes nothing off the queue.
C13_DrainedOnce ==
    /\ [](/\ \A o \in DOMAIN ops : Count(o, invokeLog) <= 1
          /\ \A o, x \in DOMAIN ops :
                (/\ ops[o].mode = "queued" /\ ops[o].state = "invoked"
                 /\ ops[x].mode = "queued" /\ ops[x].state = "invoked") => o = x
          /\ \A o \in DOMAIN ops :
                ops[o].mode = "queued" /\ ops[o].state = "invoked" => isProcessingQueue)
    /\ [][(registerSandboxCallbacks /\ (isProcessingQueue \/ pendingOperations = <<>>))
             => /\ invokeLog' = invokeLog
                /\ pendingOperations' = pendingOperations
                /\ ops' = ops]_vars

\* callbacks were registered again while the drain was suspended on operation 1
\* and operation 3, queued after a reset, is waiting
C13_Witness ==
    /\ Len(ops) = 3
    /\ ops[1].mode = "queued" /\ ops[1].state = "invoked"
    /\ RejectedByReset(2)
    /\ pendingOperations = <<3>>
    /\ fileWriteCallback /\ makeDirectoryCallback
    /\ isProcessingQueue


----------------------------------------------------------------------------
(* Properties of the FilesStore.                                            *)

A_TXT == WORK_DIR \o <<SLASH, "a.txt">>
NESTED_FILE == <<SLASH, "src", SLASH, "nested", SLASH, "file.ts">>
\* q is a proper ancestor directory of p
IsAncestor(q, p) == Len(p) > Len(q) + 1 /\ StartsWith(p, q \o <<SLASH>>)
IsFolder(fs, p) == p \in DOMAIN fs /\ fs[p].type = "folder"

\* C15: an entry of the modification baseline is never overwritten, it only
\* disappears when the baseline is cleared; a saveFile to a path that holds a
\* file and has no baseline entry records the content the file had, and a
\* saveFile that finds no file records nothing.
C15_FirstTouchBaseline ==
    [][/\ \A p \in DOMAIN modifiedFiles :
             \/ p \in DOMAIN modifiedFiles' /\ modifiedFiles'[p] = modifiedFiles[p]
             \/ modifiedFiles' = <<>>
       /\ \A p \in SavePaths, c \in Contents :
             (saveFile(p, c) /\ p \notin DOMAIN modifiedFiles) =>
                 IF HasFile(files, p)
                 THEN /\ p \in DOMAIN modifiedFiles'
                      /\ modifiedFiles'[p] = files[p].content
                 ELSE modifiedFiles' = modifiedFiles]_vars

\* /project/a.txt, created and rewritten by saveFile only, with the first
\* content as its baseline
C15_Witness ==
    /\ HasFile(files, A_TXT)
    /\ A_TXT \in DOMAIN modifiedFiles
    /\ modifiedFiles[A_TXT] = "c1"
    /\ files[A_TXT].content = "c1"
    /\ size = 0

\* C16: addFile("/src/nested/file.ts") on an empty store makes Folder entries
\* /project/src and /project/src/nested and a File entry
\* /project/src/nested/file.ts, and the size counter is 1.
C16_NestedAdd ==
    [][\A c \in Contents :
          (files = <<>> /\ size = 0 /\ addFile(NESTED_FILE, c)) =>
              /\ IsFolder(files', WORK_DIR \o <<SLASH, "src">>)
              /\ IsFolder(files', WORK_DIR \o <<SLASH, "src", SLASH, "nested">>)
              /\ HasFile(files', WORK_DIR \o NESTED_FILE)
              /\ files'[WORK_DIR \o NESTED_FILE].content = c
              /\ size' = 1]_vars

\* C17: every Folder entry of the store is a directory strictly below the work
\* directory.
C17_NoRootFolder ==
    \A p \in DOMAIN files : files[p].type = "folder" => IsAncestor(WORK_DIR, p)

\* C18: the size counter is the number of File entries of the file map.
C18_SizeCountsFiles == size = FileCount(files)

\* C19: an addFile whose normalized path holds a File replaces the content and
\* leaves the size counter unchanged; any other addFile stores the content and
\* adds one to the counter.
C19_NoDoubleCount ==
    [][\A p \in AddPaths, c \in Contents :
          addFile(p, c) =>
              /\ files'[NormalizedPath(p)] = FileEntry(c)
              /\ size' = IF HasFile(files, NormalizedPath(p)) THEN size ELSE size + 1]_vars

\* a.txt holds the second content, src and src/f.ts are both Files, and three
\* files are counted
C19_Witness ==
    /\ HasFile(files, A_TXT)
    /\ files[A_TXT].content = "c2"
    /\ HasFile(files, WORK_DIR \o <<SLASH, "src">>)
    /\ HasFile(files, WORK_DIR \o <<SLASH, "src", SLASH, "f.ts">>)
    /\ size = 3

\* C20: every ancestor path of an entry that has an entry itself holds a
\* Folder.
C20_AncestorsAreFolders ==
    \A p, q \in DOMAIN files : IsAncestor(q, p) => files[q].type = "folder"


----------------------------------------------------------------------------
(* Properties across turns.                                                 *)

\* the callback invoked for operation o, issued by a turn other than t, has
\* not settled
StuckFor(o, t) ==
    o \in DOMAIN ops /\ ops[o].state = "invoked" /\ ops[o].owner.t # t
Settled(x) == x \in DOMAIN ops => ops[x].state # "invoked"

\* C14: if the callback of an operation of another turn never settles, while
\* the callbacks stay registered and every other invoked callback settles, a
\* submitted action of turn t still reaches a terminal status.
C14_StallIsLocal ==
    \A o \in 1..MaxOps, t \in Turns :
        \/ ~<>[]StuckFor(o, t)
        \/ ~<>[]fileWriteCallback
        \/ \E x \in 1..MaxOps : x # o /\ ~[]<>Settled(x)
        \/ (actions[t][1].executed ~> actions[t][1].status \in Terminal)


----------------------------------------------------------------------------
(* Properties of the FilesStore: baseline of addFile, conversations.        *)

\* C21: an addFile whose normalized path holds a File and has no baseline
\* entry records the content the file had as the baseline of that path.
C21_AddFileBaseline ==
    [][\A p \in AddPaths, c \in Contents :
          LET np == NormalizedPath(p) IN
          (addFile(p, c) /\ HasFile(files, np) /\ np \notin DOMAIN modifiedFiles)
              => /\ np \in DOMAIN modifiedFiles'
                 /\ modifiedFiles'[np] = files[np].content]_vars

\* C22: a setChatId with the active id leaves the file map, the size counter,
\* the modification baseline and the stored blobs unchanged.
C22_SameChatNoOp ==
    [][\A c \in Chats \cup {NoChat} :
          (setChatId(c) /\ chatId = c)
              => UNCHANGED <<files, size, modifiedFiles, chatId, storage>>]_vars

\* conversation chatA is active with a baseline entry and a file that the
\* size counter has not counted: a reload would change both
C22_Witness ==
    /\ chatId = "chatA"
    /\ modifiedFiles # <<>>
    /\ size # FileCount(files)
    /\ storage["chatA"] = files

----------------------------------------------------------------------------
(* Properties of syncMissingFiles.                                          *)

SLASH_A_TXT == <<SLASH, "a.txt">>
\* the step on which a call of syncMissingFiles returns its result
SyncReturns == (SyncCall \/ afterSyncWriteFile \/ syncRejected) /\ sync'.pc = "idle"
\* the store fs has a File entry for the action path filePath
Reflected(fs, filePath) == HasFile(fs, NormalizedPath(filePath))
AllReflected(fs, fileActions) ==
    \A n \in DOMAIN fileActions : Reflected(fs, fileActions[n].filePath)
SyncOps(state) == {o \in DOMAIN ops : ops[o].owner = SyncOwner /\ ops[o].state = state}

\* C24: a call on a turn whose single file action, for "/a.txt", has no File
\* entry in the store, and whose sandbox operations (if any) all succeed,
\* returns {synced: 1, total: 1, missing: ["a.txt"]} and leaves a File entry
\* with the action's content at /project/a.txt.
C24_SingleRepair ==
    [][\A c \in Contents :
          (/\ SyncReturns
           /\ sync'.fileActions = <<[type |-> "file", filePath |-> SLASH_A_TXT, content |-> c]>>
           /\ ~HasFile(sync'.currentFiles, A_TXT)
           /\ ~Reflected(sync'.currentFiles, SLASH_A_TXT)
           /\ sync'.failed = 0)
              => /\ sync'.synced = 1
                 /\ sync'.total = 1
                 /\ sync'.missing = << <<"a.txt">> >>
                 /\ HasFile(files', A_TXT)
                 /\ files'[A_TXT].content = c]_vars

\* C25: when a call returns, every file action it examined has a File entry
\* in the store, whether or not a sandbox operation of the call failed; and a
\* call made while every file action of the turn has a File entry returns at
\* once with synced = 0, missing = [] and total = the number of file actions,
\* and changes nothing in the store.
C25_Idempotent ==
    /\ [][SyncReturns => AllReflected(files', sync'.fileActions)]_vars
    /\ [][(SyncCall /\ AllReflected(files, FileActions("t1")))
              => /\ sync'.pc = "idle"
                 /\ sync'.synced = 0
                 /\ sync'.missing = <<>>
                 /\ sync'.total = Len(FileActions("t1"))
                 /\ UNCHANGED fsVars]_vars

\* a second call has returned {synced: 0, total: 2, missing: []} for two file
\* actions, after a call whose sandbox operation was rejected
C25_Witness ==
    /\ sync.pc = "idle"
    /\ sync.t = "t1"
    /\ sync.total = 2
    /\ sync.synced = 0
    /\ sync.missing = <<>>
    /\ SyncOps("rejected") # {}
    /\ AllReflected(files, sync.fileActions)

\* C26: a rejected sandbox operation ends the repair of its path only: the
\* path stays in missing, and when the call returns every file action of the
\* snapshot has been examined and has a File entry in the store, synced counts
\* the missing paths whose repair did not fail, and total is the number of
\* file actions of the turn.
C26_FailureDoesNotAbortBatch ==
    [][/\ syncRejected =>
             /\ sync.fileActions[sync.n].filePath \in Range(sync'.missing)
             /\ sync'.synced >= sync.synced
             /\ IsPrefix(sync.missing, sync'.missing)
       /\ SyncReturns =>
             /\ sync'.n = Len(sync'.fileActions) + 1
             /\ AllReflected(files', sync'.fileActions)
             /\ sync'.synced + sync'.failed = Len(sync'.missing)
             /\ sync'.total = Len(sync'.fileActions)]_vars

\* the repair of the first of two file actions failed in the sandbox, the
\* second was repaired in the store and in the sandbox, and the call returned
\* {synced: 1, total: 2, missing: both paths}
C26_Witness ==
    /\ sync.pc = "idle"
    /\ sync.total = 2
    /\ sync.failed = 1
    /\ sync.synced = 1
    /\ Len(sync.missing) = 2
    /\ \E o \in SyncOps("rejected") : \A r \in SyncOps("resolved") : o < r
    /\ \E r \in SyncOps("resolved") : ops[r].kind = "writeFile"
    /\ AllReflected(files, sync.fileActions)

----------------------------------------------------------------------------
(* Properties of the action lifecycle.                                      *)

Registered == {<<t, a>> \in Turns \X ActionIds : actions[t][a].present}

\* C27: a registered action whose executed flag is false has none of the
\* statuses running, complete, failed: running comes only after a submit has
\* set executed.
C27_RunningOnlyAfterSubmit ==
    \A ta \in Registered :
        actions[ta[1]][ta[2]].status \in {"running", "complete", "failed"}
            => actions[ta[1]][ta[2]].executed

\* C28: once executed is true no step changes the action's type, filePath or
\* content (the command of a shell action) or clears the flag, and an
\* execution that has begun works on exactly the stored values.
C28_FrozenAfterSubmit ==
    /\ [](\A ta \in Registered :
            co[ta[1]][ta[2]].pc # "idle"
                => /\ actions[ta[1]][ta[2]].executed
                   /\ co[ta[1]][ta[2]].snap = Snapshot(actions[ta[1]][ta[2]]))
    /\ [][\A ta \in Registered :
            actions[ta[1]][ta[2]].executed
                => /\ actions'[ta[1]][ta[2]].executed
                   /\ Snapshot(actions'[ta[1]][ta[2]]) = Snapshot(actions[ta[1]][ta[2]])]_vars

\* the submit of action 1 amended the partial content c1 to c2, the execution
\* stored c2, and the action still holds c2
C28_Witness ==
    /\ actions["t1"][1].executed
    /\ actions["t1"][1].type = "file"
    /\ actions["t1"][1].content = "c2"
    /\ co["t1"][1].pc = "done"
    /\ co["t1"][1].snap.content = "c2"
    /\ << <<"a.txt">>, "c2">> \in addFileLog

\* C29: abort triggers the token and sets status aborted in the same step;
\* an execution that ends without throwing ends with status aborted when
\* the token is triggered, and with complete otherwise.
C29_AbortWins ==
    [][\A t \in Turns, a \in ActionIds :
          /\ abort(t, a) => /\ actions'[t][a].aborted
                            /\ actions'[t][a].status = "aborted"
          /\ (co[t][a].pc # "done" /\ co'[t][a].pc = "done")
                => actions'[t][a].status =
                      IF actions[t][a].aborted THEN "aborted" ELSE "complete"
          /\ actions[t][a].present /\ actions[t][a].aborted => actions'[t][a].aborted]_vars

\* action 1 was aborted while its execution was suspended on the sandbox; the
\* execution went on, stored the file and ended with status aborted
C29_Witness ==
    /\ co["t1"][1].pc = "done"
    /\ actions["t1"][1].aborted
    /\ actions["t1"][1].status = "aborted"
    /\ \E o \in DOMAIN ops : ops[o].owner = Owner("t1", 1) /\ ops[o].state = "resolved"
    /\ HasFile(files, A_TXT)

\* C30: the step on which an execution ends by a throw sets that action's
\* status to failed with the error text, leaves every other action of every
\* turn and the whole file store as they are, and resolves the promise of the
\* chain, so that the executions chained behind it run.
C30_FailureIsLocal ==
    [][\A t \in Turns, a \in ActionIds :
          (co[t][a].pc # "threw" /\ co'[t][a].pc = "threw")
              => /\ actions'[t][a].status = "failed"
                 /\ actions'[t][a].error = "Action failed"
                 /\ actions'[t][a].executed
                 /\ \A t2 \in Turns, a2 \in ActionIds :
                        <<t2, a2>> # <<t, a>> => actions'[t2][a2] = actions[t2][a2]
                 /\ UNCHANGED fsVars
                 /\ co[t][a].k \in resolved'[t]]_vars

\* action 1 stored a.txt and completed, action 2 threw afterwards: it is
\* failed, action 1 is still complete and the file is still in the store
C30_Witness ==
    /\ co["t1"][2].pc = "threw"
    /\ actions["t1"][2].status = "failed"
    /\ actions["t1"][2].error = "Action failed"
    /\ co["t1"][1].pc = "done"
    /\ actions["t1"][1].status = "complete"
    /\ actions["t1"][1].executed
    /\ HasFile(files, A_TXT)
    /\ co["t1"][2].k \in resolved["t1"]

\* the status updates addAction scheduled for action a of turn t that have
\* not run yet
RunningReactions(t, a) ==
    Cardinality({i \in DOMAIN waiting[t] : waiting[t][i].kind = "running" /\ waiting[t][i].a = a})
    + Cardinality({i \in DOMAIN mq : mq[i].type = "running" /\ mq[i].t = t /\ mq[i].a = a})

\* C31: addAction for an id that is already registered changes nothing at
\* all; and no step whatever un-registers an action, clears its executed flag
\* or its cancellation token, or adds a scheduled status update for it.
C31_RegisterIdempotent ==
    [][\A t \in Turns, a \in ActionIds :
          actions[t][a].present
              => /\ \A d \in ActionData : addAction(t, a, d) => UNCHANGED vars
                 /\ actions'[t][a].present
                 /\ actions[t][a].executed => actions'[t][a].executed
                 /\ actions[t][a].aborted => actions'[t][a].aborted
                 /\ RunningReactions(t, a)' <= RunningReactions(t, a)]_vars

\* action 1 is registered, submitted with amended content, aborted and ended,
\* and the producer can call addAction for it again
C31_Witness ==
    /\ CanCall
    /\ actions["t1"][1].present
    /\ actions["t1"][1].executed
    /\ actions["t1"][1].aborted
    /\ actions["t1"][1].content = "c2"
    /\ actions["t1"][1].status = "aborted"
    /\ co["t1"][1].pc = "done"

----------------------------------------------------------------------------
(* Properties of the connection state and of the callbacks.                 *)

\* C32: the connection flags are never both true: the link is disconnected,
\* connecting or connected, and never connecting and connected at once.
C32_OneConnectionState == ~(isConnected /\ isConnecting)

\* C33: the three callbacks are all installed or all absent, in every state,
\* also in those a suspended drain resumes in.
C33_CallbacksAllOrNone ==
    /\ fileWriteCallback = makeDirectoryCallback
    /\ makeDirectoryCallback = runCommandCallback

\* a drain is suspended on the callback of a queued operation, reset has
\* rejected the operation queued behind it and has removed the callbacks:
\* the drain resumes with all three absent
C33_Witness ==
    /\ isProcessingQueue
    /\ \E o \in DOMAIN ops : ops[o].mode = "queued" /\ ops[o].state = "invoked"
    /\ \E o \in DOMAIN ops : ops[o].mode = "queued" /\ ops[o].state = "rejected"
    /\ ~fileWriteCallback /\ ~makeDirectoryCallback /\ ~runCommandCallback

----------------------------------------------------------------------------
(* Properties of the path normalizations.                                   *)

\* the paths of the file actions registered so far
RegisteredPaths ==
    {actions[ta[1]][ta[2]].filePath : ta \in {r \in Registered : actions[r[1]][r[2]].type = "file"}}

\* C34: for every path of a registered file action, normalizing twice is
\* normalizing once, for the store's convention and for the sandbox's, and
\* the path with and without its leading slash has the same normal form.
C34_NormalizationsAgree ==
    \A p \in RegisteredPaths :
        /\ NormalizedPath(NormalizedPath(p)) = NormalizedPath(p)
        /\ SyncNormalizedPath(SyncNormalizedPath(p)) = SyncNormalizedPath(p)
        /\ SandboxPath(SandboxPath(p)) = SandboxPath(p)
        /\ SandboxPath(p) = SandboxPath(StripLeadingSlash(p))
        /\ NormalizedPath(p) = NormalizedPath(StripLeadingSlash(p))
        /\ SyncNormalizedPath(p) = SyncNormalizedPath(StripLeadingSlash(p))

----------------------------------------------------------------------------
(* Properties of the execution of a file action.                            *)

\* the sandbox calls made for action a of turn t, in the order of their issue
CallsOf(t, a) == SelectSeq(ops, LAMBDA op : op.owner = Owner(t, a))
Call(op) == [kind |-> op.kind, arg |-> op.arg]
SRC_F_TS_CALLS ==
    << [kind |-> "makeDirectory", arg |-> <<SLASH, "home", SLASH, "user">>],
       [kind |-> "makeDirectory", arg |-> <<SLASH, "home", SLASH, "user", SLASH, "src">>],
       [kind |-> "writeFile",
        arg |-> <<SLASH, "home", SLASH, "user", SLASH, "src", SLASH, "f.ts">>] >>
FileActionOne == actions["t1"][1].present /\ actions["t1"][1].type = "file"

\* C35: the sandbox calls of the file action src/f.ts are makeDirectory
\* /home/user, makeDirectory /home/user/src, writeFile /home/user/src/f.ts, in
\* this order, each made only after the one before has returned; the file is
\* added to the store only by the step that follows the return of writeFile
\* (or at the start of an execution that finds the sandbox not ready); and a
\* call that returned false is followed by the next one all the same.
C35_SandboxThenStore ==
    /\ [](FileActionOne =>
            LET mine == CallsOf("t1", 1) IN
            /\ Len(mine) <= Len(SRC_F_TS_CALLS)
            /\ \A i \in DOMAIN mine : Call(mine[i]) = SRC_F_TS_CALLS[i]
            /\ \A i \in DOMAIN mine : i < Len(mine) => mine[i].state = "resolved"
            /\ (mine # <<>> /\ files # <<>>)
                  => Len(mine) = Len(SRC_F_TS_CALLS) /\ mine[Len(mine)].state = "resolved")
    /\ [][/\ files' # files => afterWriteFile \/ (executeAction /\ ~isReady)
          /\ (FileActionOne /\ afterWriteFile)
                => /\ ops[Head(mq).op].kind = "writeFile"
                   /\ ops[Head(mq).op].state = "resolved"
                   /\ Reflected(files', SRC_F_TS)
          /\ (FileActionOne /\ afterMakeDirectory)
                => /\ Len(ops') = Len(ops) + 1
                   /\ ops'[Len(ops')].owner = Owner("t1", 1)]_vars

\* the execution started with the sandbox ready, the link was reset while the
\* first makeDirectory was awaited, so that the second makeDirectory and the
\* writeFile returned false at once, and the file was stored all the same
C35_Witness ==
    /\ FileActionOne
    /\ co["t1"][1].pc = "done"
    /\ Len(CallsOf("t1", 1)) = 3
    /\ CallsOf("t1", 1)[1].mode # "failfast"
    /\ CallsOf("t1", 1)[2].mode = "failfast"
    /\ CallsOf("t1", 1)[3].mode = "failfast"
    /\ Reflected(files, SRC_F_TS)
    /\ actions["t1"][1].status = "complete"

----------------------------------------------------------------------------
(* Properties of the statuses.                                              *)

\* C36: a status complete, aborted or failed is never replaced by another
\* status.
C36_TerminalAbsorbing ==
    [][\A ta \in Registered :
          actions[ta[1]][ta[2]].status \in Terminal
              => actions'[ta[1]][ta[2]].status = actions[ta[1]][ta[2]].status]_vars

\* C37: at most one action of a turn has status running, and an action with
\* status running is the one whose execution is in progress.
C37_OneRunning ==
    \A t \in Turns :
        /\ Cardinality({a \in ActionIds : actions[t][a].status = "running"}) <= 1
        /\ \A a \in ActionIds : actions[t][a].status = "running" => Inside(t, a)

----------------------------------------------------------------------------
(* Properties of the pending queue.                                         *)

\* C38: while the link is disconnected (neither connected nor connecting) no
\* operation is waiting in pendingOperations.
C38_NoQueueWhileDisconnected == Disconnected => pendingOperations = <<>>

----------------------------------------------------------------------------
(* Properties of syncMissingFiles: repeated paths.                          *)

\* the store keys of the file actions in fileActions that have no File in fs
AbsentKeys(fs, fileActions) ==
    {NormalizedPath(fileActions[n].filePath) :
        n \in {m \in DOMAIN fileActions : ~Reflected(fs, fileActions[m].filePath)}}

\* C39: the missing list of a returning call has no path twice, and synced is
\* at most the number of distinct store keys that had no File when the call
\* started.
C39_MissingOnce ==
    [][SyncReturns =>
          /\ \A i, j \in DOMAIN sync'.missing :
                sync'.missing[i] = sync'.missing[j] => i = j
          /\ sync'.synced <= Cardinality(AbsentKeys(sync'.currentFiles, sync'.fileActions))]_vars

\* the first file action in fileActions with the store key np
FirstFor(fileActions, np) ==
    fileActions[CHOOSE n \in DOMAIN fileActions :
                   /\ NormalizedPath(fileActions[n].filePath) = np
                   /\ \A m \in 1..(n - 1) : NormalizedPath(fileActions[m].filePath) # np]

\* C40: a call leaves every File the store holds at its start as it is, and
\* a key that has no File at the start ends with the content of the first
\* file action for it: the later actions for the key find a File when they
\* are examined and leave it alone.  The size counter grows by the number of
\* keys that had no File.
C40_PresentFilesUntouched ==
    [][SyncCall =>
          LET fileActions == FileActions("t1") IN
          /\ \A p \in DOMAIN files : HasFile(files, p) => files'[p] = files[p]
          /\ size' = size + Cardinality(AbsentKeys(files, fileActions))
          /\ \A np \in AbsentKeys(files, fileActions) :
                files'[np].content = FirstFor(fileActions, np).content]_vars

====
